---- MODULE Spec2Model ----
(***************************************************************************)
(* matrixcube: the shard state machine's admin command applier             *)
(* (raftstore: execAdminRequest and its five handlers, checkKeyInShard)    *)
(* and prophet's heartbeat response stream multiplexer (hbstream).         *)
(*                                                                         *)
(* Specifications:                                                         *)
(*   SpecHB      the multiplexer under concurrent BindStream / SendMsg     *)
(*   FairSpecHB  SpecHB with the fairness of the clients and the peers     *)
(*   Spec        one replica applying admin entries of the five types      *)
(*   SpecCC      one replica applying ConfigChange entries alone           *)
(*   SpecSplit   one replica applying one BatchSplit of any requests       *)
(*   SpecSplitAnswered  one replica applying the coordinator's BatchSplit   *)
(*               entries, the answers of the storage kept                  *)
(*   SpecCompact one replica applying CompactLog entries alone             *)
(*   SpecKey     checkKeyInShard called with any key and shard             *)
(*   SpecDet     two replicas applying the same committed entries          *)
(***************************************************************************)
EXTENDS Integers, Sequences, FiniteSets, TLC

\* ---------------------------------------------------------------- bounds

\* Capacity of a stream's outbound queue.
MaxQueue == 1
\* Admin entries applied by one replica (ctx.index of the last one).
MaxIndex == 2
\* ConfigChange entries applied by a replica that applies nothing else.
MaxChanges == 3
\* Requests of one BatchSplit.
MaxSplit == 3
\* CompactLog entries applied by a replica that applies nothing else.
MaxCompactions == 2
\* Length of the keys checkKeyInShard is called with.
MaxKeyLen == 2
\* Raft log indexes a CompactLog names and the storage reports.
MaxLogIndex == 3

VARIABLES
    streams,    \* hbstream: the shardID -> stream table, a set of <<shardID, stream>>
    sending,    \* hbstream: per client, the SendMsg in progress (or NoSend)
    queue,      \* hbstream: per stream, the messages enqueued and not yet received
    lastRecv,   \* hbstream: per stream, the message its peer received last (or NoMsg)
    lastBind,   \* ghost: per shard, the stream of the latest BindStream (or NoStream)
    d,          \* raftstore: the stateMachine of one replica, with its dataStorage
                \* and the applyContext of the entry it applied last
    peer,       \* raftstore: the stateMachine of a second replica of the shard
    raftLog     \* the admin entries committed for the shard, each with the
                \* answer the storage gives when it is applied

hbVars == <<streams, sending, queue, lastRecv, lastBind>>
applierVars == <<d, peer, raftLog>>
vars == <<streams, sending, queue, lastRecv, lastBind, d, peer, raftLog>>

\* ---------------------------------------------- heartbeat multiplexer

\* The shards the coordinator answers (the test uses resource 1).
ShardIDs == {1, 2}
\* stream1 and stream2 of TestActivity.
Streams == {"stream1", "stream2"}
\* Concurrent callers of BindStream and SendMsg.
Clients == {"c1", "c2"}

NoStream == "none"
NoSend == [pc |-> "idle"]
NoMsg == [shard |-> 0, stale |-> FALSE]

\* A bug: the lookup ignores the shard and finds the streams of every slot.
activeStreamsOfAnyShard(shardID) == {b[2] : b \in streams}

\* The streams bound for a shard: the table read at one slot.
activeStreams(shardID) == {b[2] : b \in {x \in streams : x[1] = shardID}}

\* A bug: the new stream is added beside the one bound before.
bindAddsStream(table, shardID, stream) == table \cup {<<shardID, stream>>}

\* BindStream's store: the slot of shardID is replaced by stream.
bindStream(table, shardID, stream) ==
    {b \in table : b[1] # shardID} \cup {<<shardID, stream>>}

\* Ghost: a SendMsg in progress for shardID sees one more stream bound since
\* it was invoked.
noteBind(call, shardID, stream) ==
    IF call.pc = "enqueue" /\ call.msg.shard = shardID
    THEN [call EXCEPT !.msg.bound = @ \cup {stream}]
    ELSE call

\* BindStream(shardID, stream): one atomic replacement of the slot.
BindStream(c, shardID, stream) ==
    /\ sending[c].pc = "idle"
    /\ streams' = bindStream(streams, shardID, stream)
    /\ sending' = [x \in Clients |-> noteBind(sending[x], shardID, stream)]
    /\ lastBind' = [lastBind EXCEPT ![shardID] = stream]
    /\ UNCHANGED <<queue, lastRecv, applierVars>>

\* SendMsg(shard, msg), first half: the call and the lookup of the active
\* stream. msg carries the shard and, as a ghost, the streams bound for the
\* shard from the invocation on. Without a stream msg is dropped (only a
\* telemetry counter, which is not modelled, records it) and SendMsg returns.
SendMsgLookup(c, shardID) ==
    /\ sending[c].pc = "idle"
    /\ LET msg == [shard |-> shardID, bound |-> {lastBind[shardID]}]
       IN  IF activeStreams(shardID) = {}
           THEN UNCHANGED sending
           ELSE \E s \in activeStreams(shardID) :
                    sending' = [sending EXCEPT ![c] =
                                   [pc |-> "enqueue", stream |-> s, msg |-> msg]]
    /\ UNCHANGED <<streams, queue, lastRecv, lastBind, applierVars>>

\* A bug: the message is lost instead of enqueued.
sendLoses(q, stream, msg) == q

\* The enqueue of a (cloned) message on a stream. The ghost msg.bound is
\* reduced to whether the stream was bound at no time since the invocation.
send(q, stream, msg) ==
    Append(q, [shard |-> msg.shard, stale |-> stream \notin msg.bound])

\* SendMsg, second half: enqueue on the stream looked up, then return.
SendMsgEnqueue(c) ==
    /\ sending[c].pc = "enqueue"
    /\ Len(queue[sending[c].stream]) < MaxQueue
    /\ queue' = [queue EXCEPT ![sending[c].stream] = send(@, sending[c].stream, sending[c].msg)]
    /\ sending' = [sending EXCEPT ![c] = NoSend]
    /\ UNCHANGED <<streams, lastRecv, lastBind, applierVars>>

\* The peer of a stream receives the oldest message enqueued on it.
Recv(s) ==
    /\ queue[s] # <<>>
    /\ lastRecv' = [lastRecv EXCEPT ![s] = Head(queue[s])]
    /\ queue' = [queue EXCEPT ![s] = Tail(@)]
    /\ UNCHANGED <<streams, sending, lastBind, applierVars>>

\* ------------------------------------------------------- admin applier

Min(S) == CHOOSE x \in S : \A y \in S : x <= y

\* bytes.Compare: -1, 0 or 1, lexicographic, a proper prefix being smaller.
RECURSIVE bytesCompare(_, _)
bytesCompare(a, b) ==
    IF a = <<>> /\ b = <<>> THEN 0
    ELSE IF a = <<>> THEN -1
    ELSE IF b = <<>> THEN 1
    ELSE IF Head(a) < Head(b) THEN -1
    ELSE IF Head(a) > Head(b) THEN 1
    ELSE bytesCompare(Tail(a), Tail(b))

\* A bug: the end of the range is taken for a key of the shard.
checkKeyInClosedRange(key, shard) ==
    /\ bytesCompare(key, shard.Start) >= 0
    /\ (Len(shard.End) = 0 \/ bytesCompare(key, shard.End) <= 0)

\* checkKeyInShard(key, shard) = nil: key lies in [shard.Start, shard.End),
\* an empty End being unbounded.
checkKeyInShard(key, shard) ==
    /\ bytesCompare(key, shard.Start) >= 0
    /\ (Len(shard.End) = 0 \/ bytesCompare(key, shard.End) < 0)

\* The *errorpb.Error checkKeyInShard returns: nil, or the error that
\* carries the key and the shard's ID and range.
NilError == [Message |-> "nil"]
checkKeyInShardError(key, shard) ==
    IF checkKeyInShard(key, shard)
    THEN NilError
    ELSE [Message |-> "key not in shard",
          KeyNotInShard |-> [Key |-> key, ShardID |-> shard.ID,
                             Start |-> shard.Start, End |-> shard.End]]

Voter == "Voter"
Learner == "Learner"
ReplicaIDs == {1, 2, 3}
ContainerIDs == {1, 2, 3}
Replica(id, containerID, role) ==
    [ID |-> id, ContainerID |-> containerID, Role |-> role]

\* The errors of doExecConfigChange, and the values of an applyContext that
\* an apply has not set.
ErrReplicaNotFound == "replica not found"
ErrReplicaDuplicated == "replica duplicated"
NoError == "nil"
EmptyResponseBatch == [adminType |-> "none"]
NoAdminResult == [adminType |-> "none"]
NoMetadata == [ShardID |-> 0, LogIndex |-> 0]
NoStateMachine == [shardID |-> 0]

\* The position in shard.Replicas of the replica on containerID, 0 for nil.
findReplica(shard, containerID) ==
    LET at == {k \in 1..Len(shard.Replicas) :
                  shard.Replicas[k].ContainerID = containerID}
    IN  IF at = {} THEN 0 ELSE Min(at)

\* shard without the replicas on containerID.
removeReplica(shard, containerID) ==
    [shard EXCEPT !.Replicas =
        SelectSeq(@, LAMBDA r : r.ContainerID # containerID)]

\* The apply loop hands the next entry to the state machine: a fresh
\* applyContext with the next index.
newApplyContext(sm, req) ==
    [sm EXCEPT !.ctx = [index |-> sm.ctx.index + 1, req |-> req,
                        resp |-> EmptyResponseBatch, err |-> NoError,
                        adminResult |-> NoAdminResult]]

\* logger.Fatal: the process exits.
Fatal(sm) == [sm EXCEPT !.fatal = TRUE]

\* dataStorage.SaveShardMetadata of one record: the record with the highest
\* LogIndex is the one read back.
SaveShardMetadata(sm, metadata) ==
    [sm EXCEPT !.dataStorage.metadata = metadata]

\* saveShardMetedata(index, term, shard, state).
saveShardMetedata(sm, index, shard, state) ==
    SaveShardMetadata(sm, [ShardID |-> shard.ID, LogIndex |-> index,
                           Metadata |-> [State |-> state, Shard |-> shard,
                                         RemoveData |-> FALSE]])

\* A bug: the record is persisted as Normal also when this replica has
\* removed itself.
configChangeCompletedAsNormal(sm, res, saveErr) ==
    LET swapped == [sm EXCEPT !.shard = res]
    IN  IF saveErr # NoError
        THEN Fatal(swapped)
        ELSE [saveShardMetedata(swapped, sm.ctx.index, res, "Normal") EXCEPT
                 !.ctx.resp = [adminType |-> "ConfigChange", Shard |-> res],
                 !.ctx.adminResult =
                     [adminType |-> "ConfigChange", index |-> sm.ctx.index,
                      changes |-> <<sm.ctx.req>>, shard |-> res]]

\* The tail of doExecConfigChange, from the replicaState on: swap res in,
\* persist it (a storage failure is fatal), emit the response and the
\* adminResult.
configChangeCompleted(sm, res, saveErr) ==
    LET state == IF sm.removed THEN "Tombstone" ELSE "Normal"
        swapped == [sm EXCEPT !.shard = res]
    IN  IF saveErr # NoError
        THEN Fatal(swapped)
        ELSE [saveShardMetedata(swapped, sm.ctx.index, res, state) EXCEPT
                 !.ctx.resp = [adminType |-> "ConfigChange", Shard |-> res],
                 !.ctx.adminResult =
                     [adminType |-> "ConfigChange", index |-> sm.ctx.index,
                      changes |-> <<sm.ctx.req>>, shard |-> res]]

\* A bug: the split counter is bumped instead of the membership counter.
bumpVersion(shard) == [shard EXCEPT !.Epoch.Version = @ + 1]

\* res.Epoch.ConfVer++.
bumpConfVer(shard) == [shard EXCEPT !.Epoch.ConfVer = @ + 1]

\* A bug: a replica found on the container is made a voter whatever its ID
\* and role.
addNodeUnchecked(sm, res, p, replica, saveErr) ==
    IF p # 0
    THEN configChangeCompleted(sm, [res EXCEPT !.Replicas[p].Role = Voter],
                               saveErr)
    ELSE configChangeCompleted(
             sm, [res EXCEPT !.Replicas = Append(@, [replica EXCEPT !.Role = Voter])],
             saveErr)

\* doExecConfigChange, case AddNode: p is the replica found on the container
\* (0 for nil). A learner with the request's ID is promoted, any other
\* replica found is a duplicate, and without one the replica is appended as
\* a voter.
addNode(sm, res, p, replica, saveErr) ==
    IF p # 0
    THEN IF res.Replicas[p].ID = replica.ID
         THEN IF res.Replicas[p].Role # Learner
              THEN [sm EXCEPT !.ctx.err = ErrReplicaDuplicated]
              ELSE configChangeCompleted(
                       sm, [res EXCEPT !.Replicas[p].Role = Voter], saveErr)
         ELSE [sm EXCEPT !.ctx.err = ErrReplicaDuplicated]
    ELSE configChangeCompleted(
             sm, [res EXCEPT !.Replicas = Append(@, [replica EXCEPT !.Role = Voter])],
             saveErr)

\* A bug: removing this replica itself leaves its entry in the shard.
removeNodeKeepsSelf(sm, res, p, replica, saveErr) ==
    IF p # 0
    THEN IF res.Replicas[p].ID # replica.ID
         THEN [sm EXCEPT !.ctx.err = ErrReplicaNotFound]
         ELSE IF sm.replica.ID = replica.ID
              THEN configChangeCompleted([sm EXCEPT !.removed = TRUE], res, saveErr)
              ELSE configChangeCompleted(
                       sm, removeReplica(res, replica.ContainerID), saveErr)
    ELSE [sm EXCEPT !.ctx.err = ErrReplicaNotFound]

\* A bug: removing this replica itself marks its shard as being destroyed.
removeNodeMarksDestroying(sm, res, p, replica, saveErr) ==
    IF p # 0
    THEN IF res.Replicas[p].ID # replica.ID
         THEN [sm EXCEPT !.ctx.err = ErrReplicaNotFound]
         ELSE IF sm.replica.ID = replica.ID
              THEN configChangeCompleted(
                       [sm EXCEPT !.removed = TRUE],
                       [removeReplica(res, replica.ContainerID) EXCEPT
                           !.State = "Destroying"],
                       saveErr)
              ELSE configChangeCompleted(
                       sm, removeReplica(res, replica.ContainerID), saveErr)
    ELSE [sm EXCEPT !.ctx.err = ErrReplicaNotFound]

\* A bug: this replica is marked removed before the replica found on the
\* container is compared with the request.
removeNodeMarksFirst(sm, res, p, replica, saveErr) ==
    LET marked == IF sm.replica.ID = replica.ID
                  THEN [sm EXCEPT !.removed = TRUE] ELSE sm
    IN  IF p # 0
        THEN IF res.Replicas[p].ID # replica.ID
             THEN [marked EXCEPT !.ctx.err = ErrReplicaNotFound]
             ELSE configChangeCompleted(
                      marked, removeReplica(res, replica.ContainerID), saveErr)
        ELSE [marked EXCEPT !.ctx.err = ErrReplicaNotFound]

\* doExecConfigChange, case RemoveNode: the replica found on the container
\* must carry the request's ID; removing this replica itself sets removed.
removeNode(sm, res, p, replica, saveErr) ==
    IF p # 0
    THEN IF res.Replicas[p].ID # replica.ID
         THEN [sm EXCEPT !.ctx.err = ErrReplicaNotFound]
         ELSE configChangeCompleted(
                  IF sm.replica.ID = replica.ID
                  THEN [sm EXCEPT !.removed = TRUE]
                  ELSE sm,
                  removeReplica(res, replica.ContainerID),
                  saveErr)
    ELSE [sm EXCEPT !.ctx.err = ErrReplicaNotFound]

\* A bug: the learner is appended although the container holds a replica.
addLearnerNodeUnchecked(sm, res, p, replica, saveErr) ==
    configChangeCompleted(
        sm, [res EXCEPT !.Replicas = Append(@, [replica EXCEPT !.Role = Learner])],
        saveErr)

\* doExecConfigChange, case AddLearnerNode: the container must be free.
addLearnerNode(sm, res, p, replica, saveErr) ==
    IF p # 0
    THEN [sm EXCEPT !.ctx.err = ErrReplicaDuplicated]
    ELSE configChangeCompleted(
             sm, [res EXCEPT !.Replicas = Append(@, [replica EXCEPT !.Role = Learner])],
             saveErr)

\* doExecConfigChange(ctx), sm.ctx being ctx and saveErr the answer of
\* dataStorage.SaveShardMetadata. A change type without a case changes the
\* epoch alone.
doExecConfigChange(sm, saveErr) ==
    LET req == sm.ctx.req
        replica == req.Replica
        current == sm.shard
        res == bumpConfVer(current)
        p == findReplica(res, replica.ContainerID)
    IN  CASE req.ChangeType = "AddNode" ->
               addNode(sm, res, p, replica, saveErr)
          [] req.ChangeType = "RemoveNode" ->
               removeNode(sm, res, p, replica, saveErr)
          [] req.ChangeType = "AddLearnerNode" ->
               addLearnerNode(sm, res, p, replica, saveErr)
          [] OTHER -> configChangeCompleted(sm, res, saveErr)

\* A bug: the start of a request is not compared with the end of the one
\* before it.
splitRequestInRange(req, idx, last, expectStart, current) ==
    /\ checkKeyInShard(req.Start, current)
    /\ (idx # last => checkKeyInShard(req.End, current))

\* A bug: the keys of a request are not looked up in the range of the shard.
splitRequestContiguous(req, idx, last, expectStart, current) ==
    req.Start = expectStart

\* doExecSplit's checks of request idx in the loop, which are fatal when they
\* fail: Start, and End unless the request is the last, lie in the shard, and
\* Start is expectStart, the End of the request before it.
splitRequestValid(req, idx, last, expectStart, current) ==
    /\ checkKeyInShard(req.Start, current)
    /\ (idx # last => checkKeyInShard(req.End, current))
    /\ req.Start = expectStart

\* The child shard doExecSplit builds for one request from the parent whose
\* version is already bumped; State and Labels keep their zero values.
newShard(req, current) ==
    [ID |-> req.NewShardID, Group |-> current.Group, Unique |-> current.Unique,
     RuleGroups |-> current.RuleGroups, DisableSplit |-> current.DisableSplit,
     Epoch |-> current.Epoch,
     Start |-> req.Start, End |-> req.End, State |-> "Running",
     Replicas |-> req.NewReplicas, Labels |-> <<>>]

\* replicaFactory.getShardsMetadata(): the records of the children created.
getShardsMetadata(newShards) ==
    [k \in 1..Len(newShards) |->
        [ShardID |-> newShards[k].ID, LogIndex |-> 0,
         Metadata |-> [State |-> "Normal", Shard |-> newShards[k],
                       RemoveData |-> FALSE]]]

\* A bug: a split the storage aborted is completed like any other.
doExecSplitDespiteAbort(sm, splitErr) ==
    LET requests == sm.ctx.req.Requests
        last == Len(requests)
    IN  IF last = 0 THEN Fatal(sm)
        ELSE IF \/ requests[1].Start # sm.shard.Start
                \/ requests[last].End # sm.shard.End
        THEN Fatal(sm)
        ELSE
        LET current == [sm.shard EXCEPT !.Epoch.Version = @ + last]
            expectStart(idx) ==
                IF idx = 1 THEN current.Start ELSE requests[idx - 1].End
            newShards == [idx \in 1..last |-> newShard(requests[idx], current)]
            destroying == [current EXCEPT !.State = "Destroying"]
            old == [ShardID |-> destroying.ID, LogIndex |-> sm.ctx.index,
                    Metadata |-> [State |-> "Normal", Shard |-> destroying,
                                  RemoveData |-> FALSE]]
        IN  IF \E idx \in 1..last :
                   ~splitRequestValid(requests[idx], idx, last,
                                      expectStart(idx), current)
            THEN Fatal(sm)
            ELSE IF splitErr \notin {NoError, "ErrAborted"} THEN Fatal(sm)
            ELSE [sm EXCEPT
                     !.dataStorage = [metadata |-> old,
                                      newShards |-> getShardsMetadata(newShards)],
                     !.splited = TRUE,
                     !.shard = destroying,
                     !.ctx.resp = [adminType |-> "BatchSplit", Shards |-> newShards],
                     !.ctx.adminResult = [adminType |-> "BatchSplit",
                                          newShards |-> newShards]]

\* doExecSplit(ctx), sm.ctx being ctx and splitErr the answer of
\* dataStorage.Split.
doExecSplit(sm, splitErr) ==
    LET requests == sm.ctx.req.Requests
        last == Len(requests)
    IN  IF last = 0 THEN Fatal(sm)
        ELSE IF \/ requests[1].Start # sm.shard.Start
                \/ requests[last].End # sm.shard.End
        THEN Fatal(sm)
        ELSE
        LET current == [sm.shard EXCEPT !.Epoch.Version = @ + last]
            expectStart(idx) ==
                IF idx = 1 THEN current.Start ELSE requests[idx - 1].End
            newShards == [idx \in 1..last |-> newShard(requests[idx], current)]
            destroying == [current EXCEPT !.State = "Destroying"]
            old == [ShardID |-> destroying.ID, LogIndex |-> sm.ctx.index,
                    Metadata |-> [State |-> "Normal", Shard |-> destroying,
                                  RemoveData |-> FALSE]]
        IN  IF \E idx \in 1..last :
                   ~splitRequestValid(requests[idx], idx, last,
                                      expectStart(idx), current)
            THEN Fatal(sm)
            ELSE IF splitErr = "ErrAborted" THEN sm
            ELSE IF splitErr # NoError THEN Fatal(sm)
            ELSE [sm EXCEPT
                     !.dataStorage = [metadata |-> old,
                                      newShards |-> getShardsMetadata(newShards)],
                     !.splited = TRUE,
                     !.shard = destroying,
                     !.ctx.resp = [adminType |-> "BatchSplit", Shards |-> newShards],
                     !.ctx.adminResult = [adminType |-> "BatchSplit",
                                          newShards |-> newShards]]

\* A bug: the labels are left in the order the policy produced.
unsortedLabels(labels) == labels

\* The labels sorted by Key as sort.Slice leaves them: the slices are short
\* enough for its insertion sort, which keeps equal keys in their order.
RECURSIVE sortLabels(_)
sortLabels(labels) ==
    IF labels = <<>> THEN <<>>
    ELSE LET sorted == sortLabels(SubSeq(labels, 1, Len(labels) - 1))
             x == labels[Len(labels)]
             before == SelectSeq(sorted, LAMBDA y : y.Key <= x.Key)
             after == SelectSeq(sorted, LAMBDA y : y.Key > x.Key)
         IN  before \o <<x>> \o after

\* The replicas sorted by ID, as sort.Slice leaves them.
RECURSIVE sortReplicas(_)
sortReplicas(replicas) ==
    IF replicas = <<>> THEN <<>>
    ELSE LET sorted == sortReplicas(SubSeq(replicas, 1, Len(replicas) - 1))
             x == replicas[Len(replicas)]
             before == SelectSeq(sorted, LAMBDA y : y.ID <= x.ID)
             after == SelectSeq(sorted, LAMBDA y : y.ID > x.ID)
         IN  before \o <<x>> \o after

\* The labels doUpdateLabels computes from the current ones and the request.
updatedLabels(labels, updateReq) ==
    LET newLabels ==
            SelectSeq(labels,
                      LAMBDA oldLabel :
                          \A k \in 1..Len(updateReq.Labels) :
                              updateReq.Labels[k].Key # oldLabel.Key)
    IN  CASE updateReq.Policy = "Add" -> newLabels \o updateReq.Labels
          [] updateReq.Policy = "Remove" -> newLabels
          [] updateReq.Policy = "Reset" -> updateReq.Labels
          [] updateReq.Policy = "Clear" -> <<>>
          [] OTHER -> labels

\* doUpdateLabels(ctx): the shard with the new labels is persisted as they
\* are, then the labels are sorted and the shard is swapped in.
doUpdateLabels(sm, saveErr) ==
    LET updateReq == sm.ctx.req
        current == [sm.shard EXCEPT !.Labels = updatedLabels(@, updateReq)]
    IN  IF saveErr # NoError THEN Fatal(sm)
        ELSE [SaveShardMetadata(
                  sm, [ShardID |-> sm.shardID, LogIndex |-> sm.ctx.index,
                       Metadata |-> [State |-> "Normal", Shard |-> current,
                                     RemoveData |-> FALSE]]) EXCEPT
                 !.shard = [current EXCEPT !.Labels = sortLabels(@)],
                 !.ctx.resp = [adminType |-> "UpdateLabels"],
                 !.ctx.adminResult = [adminType |-> "UpdateLabels"]]

\* isEpochStale(current.Epoch, update's epoch): the update is lower than the
\* current epoch in confVer or in version.
isEpochStale(epoch, checkEpoch) ==
    \/ checkEpoch.ConfVer < epoch.ConfVer
    \/ checkEpoch.Version < epoch.Version

\* A bug: the epoch of the update is not compared with the current one.
doUpdateMetadataUnchecked(sm, saveErr) ==
    LET updateReq == sm.ctx.req
    IN  IF saveErr # NoError THEN Fatal(sm)
        ELSE [SaveShardMetadata(
                  sm, [ShardID |-> sm.shardID, LogIndex |-> sm.ctx.index,
                       Metadata |-> updateReq.Metadata]) EXCEPT
                 !.shard = [updateReq.Metadata.Shard EXCEPT
                               !.Replicas = sortReplicas(@)],
                 !.ctx.resp = [adminType |-> "UpdateMetadata"],
                 !.ctx.adminResult = [adminType |-> "UpdateMetadata"]]

\* doUpdateMetadata(ctx): a stale update is fatal; the update is persisted
\* as it came, the shard is swapped in, and the sort of the request's
\* replicas that follows orders the replicas of the shard swapped in as
\* well (updateShard keeps the request's slice). One AddNode per replica is
\* emitted.
doUpdateMetadata(sm, saveErr) ==
    LET updateReq == sm.ctx.req
        current == sm.shard
        sorted == sortReplicas(updateReq.Metadata.Shard.Replicas)
    IN  IF isEpochStale(current.Epoch, updateReq.Metadata.Shard.Epoch)
        THEN Fatal(sm)
        ELSE IF saveErr # NoError THEN Fatal(sm)
        ELSE [SaveShardMetadata(
                  sm, [ShardID |-> sm.shardID, LogIndex |-> sm.ctx.index,
                       Metadata |-> updateReq.Metadata]) EXCEPT
                 !.shard = [updateReq.Metadata.Shard EXCEPT !.Replicas = sorted],
                 !.ctx.resp = [adminType |-> "UpdateMetadata"],
                 !.ctx.adminResult =
                     [adminType |-> "UpdateMetadata",
                      changes |-> [k \in 1..Len(sorted) |->
                                      [Type |-> "ConfChangeAddNode",
                                       NodeID |-> sorted[k].ID]]]]

\* A bug: the index is not lowered to the persistent log index.
adjustNoClamp(index, persistentLogIndex) == index

\* adjustCompactionIndex(index) when GetPersistentLogIndex has answered
\* persistentLogIndex: the index is lowered to it.
adjustCompactionIndex(index, persistentLogIndex) ==
    IF index > persistentLogIndex THEN persistentLogIndex ELSE index

\* A bug: an index at or below firstIndex is compacted like any other.
doExecCompactLogAlways(sm, persistent) ==
    IF persistent.err # NoError
    THEN [sm EXCEPT !.ctx.err = persistent.err]
    ELSE LET adjusted == adjustCompactionIndex(sm.ctx.req.CompactIndex,
                                               persistent.index)
         IN  [sm EXCEPT
                 !.firstIndex = adjusted + 1,
                 !.ctx.resp = [adminType |-> "CompactLog"],
                 !.ctx.adminResult = [adminType |-> "CompactLog",
                                      index |-> adjusted]]

\* doExecCompactLog(ctx), persistent being the answer of
\* dataStorage.GetPersistentLogIndex, an index or an error.
doExecCompactLog(sm, persistent) ==
    LET compactIndex == sm.ctx.req.CompactIndex
        firstIndex == sm.firstIndex
    IN  IF compactIndex <= firstIndex THEN sm
        ELSE IF persistent.err # NoError
        THEN [sm EXCEPT !.ctx.err = persistent.err]
        ELSE LET adjusted == adjustCompactionIndex(compactIndex, persistent.index)
             IN  [sm EXCEPT
                     !.firstIndex = adjusted + 1,
                     !.ctx.resp = [adminType |-> "CompactLog"],
                     !.ctx.adminResult = [adminType |-> "CompactLog",
                                          index |-> adjusted]]

\* execAdminRequest(ctx): the handler of the entry's admin command type;
\* answer is what the storage call of that handler returns.
execAdminRequest(sm, answer) ==
    CASE sm.ctx.req.adminCmdType = "ConfigChange" -> doExecConfigChange(sm, answer)
      [] sm.ctx.req.adminCmdType = "BatchSplit" -> doExecSplit(sm, answer)
      [] sm.ctx.req.adminCmdType = "UpdateMetadata" -> doUpdateMetadata(sm, answer)
      [] sm.ctx.req.adminCmdType = "CompactLog" -> doExecCompactLog(sm, answer)
      [] sm.ctx.req.adminCmdType = "UpdateLabels" -> doUpdateLabels(sm, answer)
      [] OTHER -> sm

\* ----------------------------------------- the replica and its entries

\* The identity of the replica whose state machine is modelled.
SelfReplica == Replica(1, 1, Voter)

\* The ConfigChange requests: every change type, replica ID and container.
\* UpdateNode is the change type the switch has no case for.
ConfigChangeTypes == {"AddNode", "RemoveNode", "UpdateNode", "AddLearnerNode"}
ConfigChangeRequests ==
    {[adminCmdType |-> "ConfigChange", ChangeType |-> ty,
      Replica |-> Replica(id, c, Voter)] :
        ty \in ConfigChangeTypes, id \in ReplicaIDs, c \in ContainerIDs}

\* The answers of a dataStorage call that persists metadata.
SaveErrors == {NoError, "io error"}

\* The replica lists a shard starts with: this replica as a voter, and at
\* most one more replica, on another container.
InitReplicas ==
    {<<SelfReplica>>} \cup
    {<<SelfReplica, Replica(id, c, role)>> :
        id \in {2, 3}, c \in {2, 3}, role \in {Voter, Learner}}

\* A shard as the replica holds it when it starts.
InitShard(start, end, replicas) ==
    [ID |-> 1, Group |-> 0, Unique |-> "", RuleGroups |-> <<>>,
     DisableSplit |-> FALSE, Start |-> start, End |-> end,
     Epoch |-> [ConfVer |-> 1, Version |-> 1], State |-> "Running",
     Replicas |-> replicas, Labels |-> <<>>]

\* The state machine of a replica that has applied nothing yet.
NewStateMachine(replica, shard) ==
    [shardID |-> shard.ID, replica |-> replica, shard |-> shard,
     removed |-> FALSE, splited |-> FALSE, firstIndex |-> 0,
     dataStorage |-> [metadata |-> NoMetadata, newShards |-> <<>>],
     ctx |-> [index |-> 0, req |-> [adminCmdType |-> "none"],
              resp |-> EmptyResponseBatch, err |-> NoError,
              adminResult |-> NoAdminResult],
     fatal |-> FALSE]

\* The replica of the shard on container 2, a peer of SelfReplica.
PeerReplica == Replica(2, 2, Voter)

\* Whether the apply loop of sm can take one more entry.
canApply(sm) == ~sm.fatal /\ sm.ctx.index < MaxIndex

\* The keys of the model: byte strings, the empty one included.
Keys == {<<>>, <<1>>, <<1, 2>>, <<2>>}

\* The ranges a shard can have: Start below End, or no End.
ShardRanges ==
    {r \in [Start : Keys, End : Keys] :
        r.End = <<>> \/ bytesCompare(r.Start, r.End) < 0}

\* A BatchSplit of the ranges given, in their order.
BatchSplit(ranges) ==
    [adminCmdType |-> "BatchSplit",
     Requests |-> [k \in 1..Len(ranges) |->
                      [Start |-> ranges[k].Start, End |-> ranges[k].End,
                       NewShardID |-> 10 + k, NewReplicas |-> <<>>]]]

\* Every list of at most MaxSplit requests over the keys.
AllSplitRequests ==
    {BatchSplit(ranges) :
        ranges \in UNION {[1..n -> [Start : Keys, End : Keys]] : n \in 0..MaxSplit}}

\* The answers of dataStorage.Split.
SplitErrors == {NoError, "ErrAborted", "io error"}

\* execAdminRequest, case ConfigChange.
ExecConfigChange ==
    /\ canApply(d)
    /\ \E req \in ConfigChangeRequests, saveErr \in SaveErrors :
           d' = doExecConfigChange(newApplyContext(d, req), saveErr)
    /\ UNCHANGED <<hbVars, peer, raftLog>>

\* execAdminRequest, case ConfigChange, of a replica that applies nothing else.
ExecConfigChangeOnly ==
    /\ ~d.fatal
    /\ d.ctx.index < MaxChanges
    /\ \E req \in ConfigChangeRequests, saveErr \in SaveErrors :
           d' = doExecConfigChange(newApplyContext(d, req), saveErr)
    /\ UNCHANGED <<hbVars, peer, raftLog>>

\* execAdminRequest, case BatchSplit, as the first entry of a replica.
ExecFirstSplit ==
    /\ canApply(d)
    /\ d.ctx.index = 0
    /\ \E req \in AllSplitRequests, splitErr \in SplitErrors :
           d' = doExecSplit(newApplyContext(d, req), splitErr)
    /\ UNCHANGED <<hbVars, peer, raftLog>>

\* The BatchSplit requests of the coordinator for the shard [1, +inf): lists
\* of at most two of a few ranges, well-formed or not.
CoordinatorSplitRequests ==
    LET ranges == {[Start |-> <<1>>, End |-> <<1, 2>>],
                   [Start |-> <<1, 2>>, End |-> <<>>],
                   [Start |-> <<1>>, End |-> <<>>],
                   [Start |-> <<2>>, End |-> <<>>]}
    IN  {BatchSplit(rs) : rs \in UNION {[1..n -> ranges] : n \in 0..2}}

\* The UpdateLabels requests.
LabelA == [Key |-> 1, Value |-> 1]
LabelA2 == [Key |-> 1, Value |-> 2]
LabelB == [Key |-> 2, Value |-> 1]
UpdateLabelsRequests ==
    {[adminCmdType |-> "UpdateLabels", Policy |-> policy, Labels |-> labels] :
        policy \in {"Add", "Remove", "Reset"},
        labels \in {<<LabelA>>, <<LabelA2>>, <<LabelB>>, <<LabelB, LabelA>>}}
    \cup {[adminCmdType |-> "UpdateLabels", Policy |-> "Clear", Labels |-> <<>>]}

\* The UpdateMetadata requests: the shard with a few replica lists and
\* epochs, those below the current one included, and the shard destroyed.
UpdateMetadataRequests ==
    {[adminCmdType |-> "UpdateMetadata",
      Metadata |-> [State |-> "Normal", RemoveData |-> FALSE,
                    Shard |-> [InitShard(<<1>>, <<>>, replicas) EXCEPT
                                  !.Epoch = [ConfVer |-> confVer,
                                             Version |-> version]]]] :
        replicas \in {<<Replica(3, 3, Voter), SelfReplica>>,
                      <<SelfReplica, Replica(2, 2, Learner)>>},
        confVer \in {1, 3}, version \in {1, 3}}
    \cup {[adminCmdType |-> "UpdateMetadata",
           Metadata |-> [State |-> "Tombstone", RemoveData |-> TRUE,
                         Shard |-> [InitShard(<<1>>, <<>>, <<SelfReplica>>) EXCEPT
                                       !.State = "Destroyed"]]]}

\* The CompactLog requests, and the answers of GetPersistentLogIndex.
CompactLogRequests ==
    {[adminCmdType |-> "CompactLog", CompactIndex |-> i] : i \in 0..MaxLogIndex}
PersistentLogIndexes ==
    {[index |-> i, err |-> NoError] : i \in 0..MaxLogIndex}
    \cup {[index |-> 0, err |-> "io error"]}

\* execAdminRequest, case BatchSplit.
ExecSplit ==
    /\ canApply(d)
    /\ \E req \in CoordinatorSplitRequests, splitErr \in SplitErrors :
           d' = doExecSplit(newApplyContext(d, req), splitErr)
    /\ UNCHANGED <<hbVars, peer, raftLog>>

\* execAdminRequest, case UpdateMetadata.
ExecUpdateMetadata ==
    /\ canApply(d)
    /\ \E req \in UpdateMetadataRequests, saveErr \in SaveErrors :
           d' = doUpdateMetadata(newApplyContext(d, req), saveErr)
    /\ UNCHANGED <<hbVars, peer, raftLog>>

\* execAdminRequest, case CompactLog.
ExecCompactLog ==
    /\ canApply(d)
    /\ \E req \in CompactLogRequests, persistent \in PersistentLogIndexes :
           d' = doExecCompactLog(newApplyContext(d, req), persistent)
    /\ UNCHANGED <<hbVars, peer, raftLog>>

\* execAdminRequest, case UpdateLabels.
ExecUpdateLabels ==
    /\ canApply(d)
    /\ \E req \in UpdateLabelsRequests, saveErr \in SaveErrors :
           d' = doUpdateLabels(newApplyContext(d, req), saveErr)
    /\ UNCHANGED <<hbVars, peer, raftLog>>

NoHB ==
    /\ streams = {}
    /\ sending = [c \in Clients |-> NoSend]
    /\ queue = [s \in Streams |-> <<>>]
    /\ lastRecv = [s \in Streams |-> NoMsg]
    /\ lastBind = [i \in ShardIDs |-> NoStream]

\* Sequences of ConfigChange entries applied to one replica.
InitCC ==
    /\ NoHB
    /\ peer = NoStateMachine
    /\ raftLog = <<>>
    /\ \E replicas \in InitReplicas :
           d = NewStateMachine(SelfReplica, InitShard(<<1>>, <<>>, replicas))

NextCC == ExecConfigChangeOnly

SpecCC == InitCC /\ [][NextCC]_vars

\* Any sequence of admin entries applied to one replica.
Init == InitCC

Next ==
    \/ ExecConfigChange
    \/ ExecSplit
    \/ ExecUpdateMetadata
    \/ ExecCompactLog
    \/ ExecUpdateLabels

Spec == Init /\ [][Next]_vars

\* The entries committed in the two-replica specification, each with the
\* answer the storage adapter gives on both replicas.
Entry(req, answer) == [req |-> req, answer |-> answer]
ChangeEntry(ty, id, c) ==
    Entry([adminCmdType |-> "ConfigChange", ChangeType |-> ty,
           Replica |-> Replica(id, c, Voter)], NoError)
CommittedEntries ==
    {ChangeEntry("RemoveNode", 1, 1), ChangeEntry("RemoveNode", 2, 2),
     ChangeEntry("AddLearnerNode", 3, 3), ChangeEntry("AddNode", 3, 3),
     ChangeEntry("AddNode", 2, 2), ChangeEntry("UpdateNode", 1, 1)}
    \cup {Entry(BatchSplit(<<[Start |-> <<1>>, End |-> <<1, 2>>],
                            [Start |-> <<1, 2>>, End |-> <<>>]>>), e) :
             e \in {NoError, "ErrAborted"}}
    \cup {Entry([adminCmdType |-> "UpdateLabels", Policy |-> policy,
                 Labels |-> <<LabelB, LabelA>>], NoError) :
             policy \in {"Add", "Reset"}}
    \cup {Entry([adminCmdType |-> "UpdateLabels", Policy |-> "Remove",
                 Labels |-> <<LabelB>>], NoError)}
    \cup {Entry(req, NoError) :
             req \in {r \in UpdateMetadataRequests :
                         r.Metadata.Shard.Epoch.Version = 1}}
    \cup {Entry([adminCmdType |-> "CompactLog", CompactIndex |-> 2],
                [index |-> i, err |-> NoError]) : i \in {1, 3}}

\* Raft commits one more admin entry for the shard.
Commit ==
    /\ Len(raftLog) < MaxIndex
    /\ \E e \in CommittedEntries : raftLog' = Append(raftLog, e)
    /\ UNCHANGED <<hbVars, d, peer>>

\* The entry a state machine applies next, as execAdminRequest leaves it.
applyNext(sm) ==
    LET e == raftLog[sm.ctx.index + 1]
    IN  execAdminRequest(newApplyContext(sm, e.req), e.answer)

\* The replica applies the next committed entry.
Apply ==
    /\ ~d.fatal
    /\ d.ctx.index < Len(raftLog)
    /\ d' = applyNext(d)
    /\ UNCHANGED <<hbVars, peer, raftLog>>

\* Its peer applies the next committed entry.
ApplyPeer ==
    /\ ~peer.fatal
    /\ peer.ctx.index < Len(raftLog)
    /\ peer' = applyNext(peer)
    /\ UNCHANGED <<hbVars, d, raftLog>>

\* Two fresh replicas of one shard apply the committed entries, each at its
\* own pace.
InitDet ==
    /\ NoHB
    /\ raftLog = <<>>
    /\ \E replicas \in {<<SelfReplica, PeerReplica>>,
                         <<SelfReplica, [PeerReplica EXCEPT !.Role = Learner]>>} :
           /\ d = NewStateMachine(SelfReplica, InitShard(<<1>>, <<>>, replicas))
           /\ peer = NewStateMachine(PeerReplica, InitShard(<<1>>, <<>>, replicas))

NextDet == Commit \/ Apply \/ ApplyPeer

SpecDet == InitDet /\ [][NextDet]_vars

\* One BatchSplit applied to a replica of a shard of any range.
\* execAdminRequest, case CompactLog, of a replica that applies nothing else;
\* raftLog keeps the entries applied, each with the answer of
\* GetPersistentLogIndex.
ExecCompactLogOnly ==
    /\ ~d.fatal
    /\ d.ctx.index < MaxCompactions
    /\ \E req \in CompactLogRequests, persistent \in PersistentLogIndexes :
           /\ d' = doExecCompactLog(newApplyContext(d, req), persistent)
           /\ raftLog' = Append(raftLog, Entry(req, persistent))
    /\ UNCHANGED <<hbVars, peer>>

\* Sequences of CompactLog entries applied to one replica whose log starts
\* at any first index.
InitCompact ==
    /\ NoHB
    /\ peer = NoStateMachine
    /\ raftLog = <<>>
    /\ \E firstIndex \in 0..MaxLogIndex :
           d = [NewStateMachine(SelfReplica, InitShard(<<1>>, <<>>, <<SelfReplica>>))
                   EXCEPT !.firstIndex = firstIndex]

NextCompact == ExecCompactLogOnly

SpecCompact == InitCompact /\ [][NextCompact]_vars

\* execAdminRequest, case BatchSplit, of a replica that applies nothing
\* else; raftLog keeps the entries applied, each with the answer of
\* dataStorage.Split.
ExecSplitAnswered ==
    /\ canApply(d)
    /\ \E req \in CoordinatorSplitRequests, splitErr \in SplitErrors :
           /\ d' = doExecSplit(newApplyContext(d, req), splitErr)
           /\ raftLog' = Append(raftLog, Entry(req, splitErr))
    /\ UNCHANGED <<hbVars, peer>>

\* Sequences of BatchSplit entries of the coordinator applied to one replica
\* of the shard [1, +inf).
InitSplitAnswered ==
    /\ NoHB
    /\ peer = NoStateMachine
    /\ raftLog = <<>>
    /\ \E epoch \in {<<1, 1>>, <<2, 5>>} :
           d = NewStateMachine(
                   SelfReplica,
                   [InitShard(<<1>>, <<>>, <<SelfReplica>>) EXCEPT
                       !.Epoch = [ConfVer |-> epoch[1], Version |-> epoch[2]]])

NextSplitAnswered == ExecSplitAnswered

SpecSplitAnswered == InitSplitAnswered /\ [][NextSplitAnswered]_vars

\* The keys of at most MaxKeyLen bytes, and the shards of any ID and any
\* two of them as Start and End.
ByteKeys == UNION {[1..n -> {1, 2}] : n \in 0..MaxKeyLen}
KeyShards ==
    {[InitShard(start, end, <<SelfReplica>>) EXCEPT !.ID = id] :
        start \in ByteKeys, end \in ByteKeys, id \in {1, 2}}

\* A caller checks a key against the shard: ctx keeps the key and the error
\* returned.
CheckKey ==
    /\ d.ctx.index = 0
    /\ \E key \in ByteKeys :
           d' = [d EXCEPT !.ctx.index = 1,
                          !.ctx.req = [adminCmdType |-> "none", Key |-> key],
                          !.ctx.err = checkKeyInShardError(key, d.shard)]
    /\ UNCHANGED <<hbVars, peer, raftLog>>

InitKey ==
    /\ NoHB
    /\ peer = NoStateMachine
    /\ raftLog = <<>>
    /\ \E shard \in KeyShards : d = NewStateMachine(SelfReplica, shard)

NextKey == CheckKey

SpecKey == InitKey /\ [][NextKey]_vars

InitSplit ==
    /\ NoHB
    /\ peer = NoStateMachine
    /\ raftLog = <<>>
    /\ \E r \in ShardRanges, epoch \in {<<1, 1>>, <<2, 5>>} :
           d = NewStateMachine(
                   SelfReplica,
                   [InitShard(r.Start, r.End, <<SelfReplica>>) EXCEPT
                       !.Epoch = [ConfVer |-> epoch[1], Version |-> epoch[2]]])

NextSplit == ExecFirstSplit

SpecSplit == InitSplit /\ [][NextSplit]_vars

InitHB ==
    /\ streams = {}
    /\ sending = [c \in Clients |-> NoSend]
    /\ queue = [s \in Streams |-> <<>>]
    /\ lastRecv = [s \in Streams |-> NoMsg]
    /\ lastBind = [i \in ShardIDs |-> NoStream]
    /\ d = NoStateMachine
    /\ peer = NoStateMachine
    /\ raftLog = <<>>

NextHB ==
    \/ \E c \in Clients, i \in ShardIDs, s \in Streams : BindStream(c, i, s)
    \/ \E c \in Clients, i \in ShardIDs : SendMsgLookup(c, i)
    \/ \E c \in Clients : SendMsgEnqueue(c)
    \/ \E s \in Streams : Recv(s)

SpecHB == InitHB /\ [][NextHB]_vars

\* The callers keep sending for every shard, a SendMsg blocked on a full
\* stream gets its turn (Go wakes blocked channel senders in FIFO order), and
\* the peer of every stream keeps receiving.
FairSpecHB ==
    /\ SpecHB
    /\ \A i \in ShardIDs : SF_vars(\E c \in Clients : SendMsgLookup(c, i))
    /\ \A c \in Clients : SF_vars(SendMsgEnqueue(c))
    /\ \A s \in Streams : WF_vars(Recv(s))

\* A step in which the peer of stream s receives a message of shard i.
RecvOf(s, i) == Recv(s) /\ Head(queue[s]).shard = i

\* The messages of shard i enqueued on stream s.
queued(s, i) == {k \in 1..Len(queue[s]) : queue[s][k].shard = i}

\* ------------------------------------------------------------- claims

\* Whether the step applied an entry of the given type with no error and
\* without a fatal exit.
applied(adminCmdType) ==
    /\ d'.ctx.index = d.ctx.index + 1
    /\ d'.ctx.req.adminCmdType = adminCmdType
    /\ d'.ctx.err = NoError
    /\ ~d'.fatal

\* The children of the BatchSplit the replica completed last.
children == d.ctx.adminResult.newShards

\* The children whose range holds key.
childrenWith(key) ==
    {k \in 1..Len(children) : checkKeyInShard(key, children[k])}

\* C4: after every BatchSplit that completes, the children tile the parent's
\* range: every key of the parent lies in exactly one child, and a key
\* outside the parent lies in none.
C4_ChildrenTile ==
    d.ctx.adminResult.adminType = "BatchSplit" =>
        \A key \in Keys :
            Cardinality(childrenWith(key)) =
                IF checkKeyInShard(key, d.shard) THEN 1 ELSE 0

\* C5: a completed BatchSplit with N requests on a parent of version v leaves
\* N children, one per request, each starting where the one before it ends,
\* the first at the parent's start and the last ending at the parent's end;
\* every child and the parent have version v + N and the parent's confVer.
C5_SplitChainAndVersion ==
    [][(applied("BatchSplit") /\ d'.ctx.adminResult.adminType = "BatchSplit") =>
        LET new == d'.ctx.adminResult.newShards
            requests == d'.ctx.req.Requests
            N == Len(requests)
        IN  /\ Len(new) = N
            /\ \A k \in 1..N : /\ new[k].Start = requests[k].Start
                               /\ new[k].End = requests[k].End
                               /\ new[k].ID = requests[k].NewShardID
            /\ \A k \in 1..(N - 1) : new[k].End = new[k + 1].Start
            /\ new[1].Start = d.shard.Start
            /\ new[N].End = d.shard.End
            /\ \A k \in 1..N :
                   /\ new[k].Epoch.Version = d.shard.Epoch.Version + N
                   /\ new[k].Epoch.ConfVer = d.shard.Epoch.ConfVer
            /\ d'.shard.Epoch.Version = d.shard.Epoch.Version + N
            /\ d'.shard.Epoch.ConfVer = d.shard.Epoch.ConfVer
            /\ d'.shard.Start = d.shard.Start
            /\ d'.shard.End = d.shard.End
      ]_vars

\* C5 witness: a parent of version 5 and confVer 2 was split in three; the
\* parent and the children have version 8.
C5_Witness ==
    /\ d.ctx.adminResult.adminType = "BatchSplit"
    /\ Len(d.ctx.adminResult.newShards) = 3
    /\ d.shard.Epoch = [ConfVer |-> 2, Version |-> 8]
    /\ d.shard.State = "Destroying"
    /\ d.splited

\* C1: rebind monotonicity. No message is delivered (enqueued on, or received
\* from) a stream that was bound for its shard at no time since the SendMsg
\* that carries it was invoked: after BindStream(s, S2) returns, a later
\* SendMsg for s never reaches the stream S1 bound before, until S1 is bound
\* again.
C1_RebindMonotonic ==
    \A s \in Streams :
        /\ ~lastRecv[s].stale
        /\ \A k \in 1..Len(queue[s]) : ~queue[s][k].stale

\* C1 witness: shard 1 was rebound from stream1 (whose peer received a message
\* of shard 1) to stream2, and a SendMsg invoked after the rebind was received
\* on stream2 while stream1 holds nothing.
C1_Witness ==
    /\ lastBind[1] = "stream2"
    /\ lastRecv["stream1"].shard = 1
    /\ lastRecv["stream2"].shard = 1
    /\ queue["stream1"] = <<>>
    /\ \E c \in Clients : /\ sending[c].pc = "enqueue"
                          /\ sending[c].msg.shard = 1
                          /\ sending[c].msg.bound = {"stream2"}

\* C2: at most one stream is bound per shard in every reachable state, and
\* the table holds for each shard exactly the stream of the latest BindStream
\* (BindStream replaces, never adds).
C2_AtMostOneActive ==
    \A i \in ShardIDs :
        /\ Cardinality(activeStreams(i)) <= 1
        /\ lastBind[i] # NoStream => activeStreams(i) = {lastBind[i]}
        /\ lastBind[i] = NoStream => activeStreams(i) = {}

\* C2 witness: a BindStream replaced stream1 by stream2 for shard 1 while a
\* concurrent SendMsg that had looked up stream1 was still in progress, and
\* shard 2 is bound too.
C2_Witness ==
    /\ activeStreams(1) = {"stream2"}
    /\ activeStreams(2) # {}
    /\ \E c \in Clients : /\ sending[c].pc = "enqueue"
                          /\ sending[c].msg.shard = 1
                          /\ sending[c].stream = "stream1"

\* C3: delivery to the bound stream. If from some point on stream s stays the
\* stream bound for shard i, then the peer of s receives messages of shard i
\* again and again, and eventually no message of shard i is enqueued on
\* another stream.
C3_DeliveryToBound ==
    \A i \in ShardIDs : \A s \in Streams :
        <>[](activeStreams(i) = {s}) =>
            /\ []<><<RecvOf(s, i)>>_vars
            /\ <>[](\A t \in Streams \ {s} : queued(t, i) = {})

\* C3 witness: stream2 is bound for shard 2, its peer has received a message
\* of shard 2, and stream1, bound for shard 2 before, holds no message of it.
C3_Witness ==
    /\ activeStreams(2) = {"stream2"}
    /\ lastRecv["stream2"].shard = 2
    /\ queued("stream1", 2) = {}
    /\ lastRecv["stream1"].shard = 2

\* C6: every ConfigChange (AddNode, RemoveNode or AddLearnerNode) applied
\* with success raises epoch.confVer of the in-memory shard by exactly 1 and
\* leaves epoch.version as it was.
C6_ConfigChangeBumpsConfVer ==
    [][(/\ applied("ConfigChange")
        /\ d'.ctx.req.ChangeType \in {"AddNode", "RemoveNode", "AddLearnerNode"})
       => /\ d'.shard.Epoch.ConfVer = d.shard.Epoch.ConfVer + 1
          /\ d'.shard.Epoch.Version = d.shard.Epoch.Version]_vars

\* A RemoveNode applied with success as the second entry, after another
\* successful ConfigChange.
C6_Witness ==
    /\ d.ctx.index = 2
    /\ d.ctx.req.adminCmdType = "ConfigChange"
    /\ d.ctx.req.ChangeType = "RemoveNode"
    /\ d.ctx.err = NoError
    /\ ~d.fatal
    /\ d.shard.Epoch = [ConfVer |-> 3, Version |-> 1]

\* Whether the entry the step applies is an UpdateMetadata whose epoch is
\* below the current one in confVer or in version.
staleUpdateMetadata ==
    /\ d'.ctx.index = d.ctx.index + 1
    /\ d'.ctx.req.adminCmdType = "UpdateMetadata"
    /\ \/ d'.ctx.req.Metadata.Shard.Epoch.ConfVer < d.shard.Epoch.ConfVer
       \/ d'.ctx.req.Metadata.Shard.Epoch.Version < d.shard.Epoch.Version

\* C7: no applied admin entry lowers confVer or version of the in-memory
\* shard's epoch, and an UpdateMetadata with an epoch below the current one
\* is fatal, persists nothing and leaves the in-memory shard.
C7_EpochMonotonic ==
    [][/\ d'.shard.Epoch.ConfVer >= d.shard.Epoch.ConfVer
       /\ d'.shard.Epoch.Version >= d.shard.Epoch.Version
       /\ staleUpdateMetadata
          => /\ d'.fatal
             /\ d'.shard = d.shard
             /\ d'.dataStorage = d.dataStorage]_vars

\* The replica exited on an UpdateMetadata of epoch (1, 3) when a
\* ConfigChange had taken its shard to (2, 1), and has persisted nothing since.
C7_Witness ==
    /\ d.fatal
    /\ d.ctx.index = 2
    /\ d.ctx.req.adminCmdType = "UpdateMetadata"
    /\ d.ctx.req.Metadata.Shard.Epoch = [ConfVer |-> 1, Version |-> 3]
    /\ d.shard.Epoch = [ConfVer |-> 2, Version |-> 1]
    /\ d.dataStorage.metadata.LogIndex = 1

\* C8: when ConfigChange entries alone are applied to a shard whose replicas
\* are on distinct containers, whether they succeed or fail, no two replicas
\* of the in-memory shard are on one container.
C8_OneReplicaPerContainer ==
    \A j, k \in 1..Len(d.shard.Replicas) :
        j # k => d.shard.Replicas[j].ContainerID # d.shard.Replicas[k].ContainerID

\* Three replicas on the three containers, and the last entry, which asked
\* for one more on a container in use, refused as a duplicate.
C8_Witness ==
    /\ Len(d.shard.Replicas) = 3
    /\ d.ctx.req.adminCmdType = "ConfigChange"
    /\ d.ctx.req.ChangeType \in {"AddNode", "AddLearnerNode"}
    /\ d.ctx.err = ErrReplicaDuplicated

\* The positions of the replicas of shard with the given ID, container and
\* role.
replicasAt(shard, id, containerID, role) ==
    {k \in 1..Len(shard.Replicas) :
        shard.Replicas[k] = Replica(id, containerID, role)}

\* C9: in a sequence of ConfigChange entries a learner becomes a voter only
\* in the step of an AddNode with its replica ID and container; an AddNode
\* for a container that holds a replica of another ID, or a voter of the
\* same ID, fails with ReplicaDuplicated and changes no shard.
C9_PromotionOnlyByAddNode ==
    [][LET req == d'.ctx.req
           held == {k \in 1..Len(d.shard.Replicas) :
                       d.shard.Replicas[k].ContainerID = req.Replica.ContainerID}
       IN  /\ \A id \in ReplicaIDs, c \in ContainerIDs :
                 (/\ replicasAt(d.shard, id, c, Learner) # {}
                  /\ replicasAt(d'.shard, id, c, Learner) = {}
                  /\ replicasAt(d'.shard, id, c, Voter) # {})
                 => /\ req.ChangeType = "AddNode"
                    /\ req.Replica.ID = id
                    /\ req.Replica.ContainerID = c
           /\ (/\ d'.ctx.index = d.ctx.index + 1
               /\ req.ChangeType = "AddNode"
               /\ \E k \in held :
                     \/ d.shard.Replicas[k].ID # req.Replica.ID
                     \/ d.shard.Replicas[k].Role = Voter)
              => /\ d'.ctx.err = ErrReplicaDuplicated
                 /\ d'.shard = d.shard
                 /\ d'.dataStorage = d.dataStorage]_vars

\* AddNode(2, 2) was applied with success and replica 2 is a voter in the
\* middle of the list, where an appended replica cannot be: it was promoted.
C9_Witness ==
    /\ d.ctx.req.adminCmdType = "ConfigChange"
    /\ d.ctx.req.ChangeType = "AddNode"
    /\ d.ctx.req.Replica.ID = 2
    /\ d.ctx.req.Replica.ContainerID = 2
    /\ d.ctx.err = NoError
    /\ ~d.fatal
    /\ d.shard.Replicas = <<SelfReplica, Replica(2, 2, Voter), Replica(3, 3, Learner)>>

\* C10 as stated: two fresh replicas that have applied the same committed
\* entries, with the same storage answers, hold equal in-memory shards and
\* equal latest persisted records, shard and replicaState.
C10_ReplicaDeterminism ==
    d.ctx.index = peer.ctx.index
    => /\ d.shard = peer.shard
       /\ d.dataStorage.metadata = peer.dataStorage.metadata

\* C10, amended: two fresh replicas that have applied the same committed
\* entries hold equal in-memory shards and equal shards in their latest
\* persisted records, written at the same index; the replicaState of the
\* records is equal as long as neither replica has applied a RemoveNode of
\* itself.
C10_DeterminismButReplicaState ==
    d.ctx.index = peer.ctx.index
    => /\ d.shard = peer.shard
       /\ d.dataStorage.metadata.LogIndex = peer.dataStorage.metadata.LogIndex
       /\ d.dataStorage.metadata.LogIndex > 0
          => d.dataStorage.metadata.Metadata.Shard
                 = peer.dataStorage.metadata.Metadata.Shard
       /\ (~d.removed /\ ~peer.removed)
          => d.dataStorage.metadata = peer.dataStorage.metadata

\* Both replicas have applied two entries, the second of which persisted a
\* record, and one of the replicas has removed itself.
C10_Witness ==
    /\ d.ctx.index = 2
    /\ peer.ctx.index = 2
    /\ d.removed
    /\ d.dataStorage.metadata.LogIndex = 2
    /\ peer.dataStorage.metadata.LogIndex = 2

\* Whether the step applies a CompactLog right after another CompactLog of
\* a higher index.
lowerCompactLogFollows ==
    /\ d.ctx.index >= 1
    /\ d'.ctx.index = d.ctx.index + 1
    /\ d.ctx.req.adminCmdType = "CompactLog"
    /\ d'.ctx.req.adminCmdType = "CompactLog"
    /\ d'.ctx.req.CompactIndex < d.ctx.req.CompactIndex

\* C11 as stated: CompactLog(i) followed by CompactLog(j) with j < i is a
\* no-op, whatever firstIndex was and whatever the storage reported at
\* either apply: the second leaves firstIndex and emits no compactionResult.
C11_LowerCompactLogNoOp ==
    [][lowerCompactLogFollows
       => /\ d'.firstIndex = d.firstIndex
          /\ d'.ctx.adminResult = NoAdminResult]_vars

\* C11, amended: CompactLog(i) followed by CompactLog(j) with j < i is a
\* no-op unless the first apply failed to read the persistent log index or
\* was lowered to a persistent log index below j - 1.
C11_LowerCompactLogNoOpUnlessClamped ==
    [][(/\ lowerCompactLogFollows
        /\ d.ctx.err = NoError
        /\ \/ d.ctx.adminResult = NoAdminResult
           \/ d.ctx.adminResult.index >= d'.ctx.req.CompactIndex - 1)
       => /\ d'.firstIndex = d.firstIndex
          /\ d'.ctx.adminResult = NoAdminResult
          /\ d'.ctx.err = NoError]_vars

\* CompactLog(3) compacted up to index 3 and CompactLog(2), for which the
\* storage reported 3 as well, was applied after it and changed nothing.
C11_Witness ==
    /\ Len(raftLog) = 2
    /\ d.ctx.index = 2
    /\ raftLog[1].req.CompactIndex = 3
    /\ raftLog[1].answer = [index |-> 3, err |-> NoError]
    /\ raftLog[2].req.CompactIndex = 2
    /\ raftLog[2].answer = [index |-> 3, err |-> NoError]
    /\ d.firstIndex = 4
    /\ d.ctx.adminResult = NoAdminResult

\* C12: a CompactLog(c) that emits a compactionResult emits the lower of c
\* and the persistent log index the storage reported for that apply, hence
\* no more than that index, and leaves firstIndex one above it.
C12_CompactionClamp ==
    [][(/\ d'.ctx.index = d.ctx.index + 1
        /\ d'.ctx.adminResult # NoAdminResult)
       => LET c == raftLog'[d'.ctx.index].req.CompactIndex
              persistentLogIndex == raftLog'[d'.ctx.index].answer.index
              index == d'.ctx.adminResult.index
          IN  /\ index = IF c < persistentLogIndex THEN c ELSE persistentLogIndex
              /\ index <= persistentLogIndex
              /\ d'.firstIndex = index + 1]_vars

\* firstIndex 1, persistent log index 2, CompactLog(3): index 2 is emitted
\* and firstIndex is 3.
C12_Witness ==
    /\ Len(raftLog) = 2
    /\ d.ctx.index = 2
    /\ raftLog[1].req.CompactIndex = 0
    /\ raftLog[2].req.CompactIndex = 3
    /\ raftLog[2].answer = [index |-> 2, err |-> NoError]
    /\ d.ctx.adminResult = [adminType |-> "CompactLog", index |-> 2]
    /\ d.firstIndex = 3

\* Whether the labels are in the order of their keys.
sortedByKey(labels) ==
    \A j, k \in 1..Len(labels) : j < k => labels[j].Key <= labels[k].Key

\* C13: after an UpdateLabels of any policy is applied the labels of the
\* in-memory shard are sorted by key, and after a Reset they are the labels
\* of the request, each as often as the request has it, whatever the labels
\* were before.
C13_LabelsSorted ==
    [][applied("UpdateLabels")
       => /\ sortedByKey(d'.shard.Labels)
          /\ d'.ctx.req.Policy = "Reset"
             => LET L == d'.ctx.req.Labels
                IN  /\ Len(d'.shard.Labels) = Len(L)
                    /\ \A label \in {L[k] : k \in 1..Len(L)} :
                          Cardinality({k \in 1..Len(L) : L[k] = label})
                          = Cardinality({k \in 1..Len(L) :
                                            d'.shard.Labels[k] = label})]_vars

\* A Reset to the labels (2, 1), (1, 1), applied as the second entry to a
\* shard that had another label, left (1, 1), (2, 1).
C13_Witness ==
    /\ d.ctx.index = 2
    /\ ~d.fatal
    /\ d.ctx.req.adminCmdType = "UpdateLabels"
    /\ d.ctx.req.Policy = "Reset"
    /\ d.ctx.req.Labels = <<LabelB, LabelA>>
    /\ d.shard.Labels = <<LabelA, LabelB>>
    /\ d.ctx.adminResult.adminType = "UpdateLabels"

\* C14: in every handler that persists metadata the storage call has
\* completed before the in-memory shard is replaced: whenever the apply of
\* an entry has changed the in-memory shard, the record of that entry is in
\* the storage.
C14_PersistBeforeSwap ==
    [][(d'.ctx.index = d.ctx.index + 1 /\ d'.shard # d.shard)
       => d'.dataStorage.metadata.LogIndex = d'.ctx.index]_vars

\* C15: after every ConfigChange, BatchSplit that is not aborted,
\* UpdateMetadata and UpdateLabels applied with success, the shard of the
\* record persisted last, that of the entry, equals the in-memory shard,
\* the order of its labels included.
C15_MemoryDiskAgree ==
    [][(/\ \E adminCmdType \in {"ConfigChange", "BatchSplit",
                                "UpdateMetadata", "UpdateLabels"} :
              applied(adminCmdType)
        /\ d'.ctx.adminResult # NoAdminResult)
       => /\ d'.dataStorage.metadata.LogIndex = d'.ctx.index
          /\ d'.dataStorage.metadata.Metadata.Shard = d'.shard]_vars

\* C16: a ConfigChange that fails with ReplicaDuplicated or ReplicaNotFound
\* leaves the in-memory shard, its replicas and confVer included, and the
\* removed flag as they were, persists no record and emits no adminResult.
C16_DomainFailureNoEffect ==
    [][(/\ d'.ctx.index = d.ctx.index + 1
        /\ d'.ctx.err \in {ErrReplicaDuplicated, ErrReplicaNotFound})
       => /\ d'.shard = d.shard
          /\ d'.removed = d.removed
          /\ d'.dataStorage = d.dataStorage
          /\ d'.ctx.adminResult = NoAdminResult
          /\ ~d'.fatal]_vars

\* A RemoveNode that named this replica's ID on the container of another
\* replica failed with ReplicaNotFound after one ConfigChange had succeeded:
\* confVer is 2, the record is that of index 1 and the replica is not
\* removed.
C16_Witness ==
    /\ d.ctx.index = 2
    /\ d.ctx.req.adminCmdType = "ConfigChange"
    /\ d.ctx.req.ChangeType = "RemoveNode"
    /\ d.ctx.req.Replica.ID = d.replica.ID
    /\ d.ctx.err = ErrReplicaNotFound
    /\ d.shard.Epoch.ConfVer = 2
    /\ d.dataStorage.metadata.LogIndex = 1
    /\ ~d.removed

\* Whether the requests are none, do not start at the start of the shard or
\* end at its end, have a start, or an end other than the last, outside the
\* range of the shard, or have a request that does not start where the one
\* before it ends.
malformedSplit(requests, shard) ==
    LET N == Len(requests)
    IN  \/ N = 0
        \/ requests[1].Start # shard.Start
        \/ requests[N].End # shard.End
        \/ \E k \in 1..N : ~checkKeyInShard(requests[k].Start, shard)
        \/ \E k \in 1..(N - 1) : ~checkKeyInShard(requests[k].End, shard)
        \/ \E k \in 1..(N - 1) : requests[k].End # requests[k + 1].Start

\* C17: a BatchSplit of malformed geometry exits the process before the
\* storage is called and before the in-memory shard or the splited flag
\* changes.
C17_MalformedSplitFatal ==
    [][(/\ d'.ctx.index = d.ctx.index + 1
        /\ d'.ctx.req.adminCmdType = "BatchSplit"
        /\ malformedSplit(d'.ctx.req.Requests, d.shard))
       => /\ d'.fatal
          /\ d'.dataStorage = d.dataStorage
          /\ d'.shard = d.shard
          /\ d'.splited = d.splited
          /\ d'.ctx.adminResult = NoAdminResult]_vars

\* The process exited on two requests that start and end with the shard,
\* all keys in its range, the second not starting where the first ends.
C17_Witness ==
    /\ d.fatal
    /\ d.ctx.req.adminCmdType = "BatchSplit"
    /\ Len(d.ctx.req.Requests) = 2
    /\ d.ctx.req.Requests[1].Start = d.shard.Start
    /\ d.ctx.req.Requests[2].End = d.shard.End
    /\ \A k \in 1..2 : checkKeyInShard(d.ctx.req.Requests[k].Start, d.shard)
    /\ checkKeyInShard(d.ctx.req.Requests[1].End, d.shard)
    /\ d.ctx.req.Requests[1].End # d.ctx.req.Requests[2].Start
    /\ ~d.splited
    /\ d.shard.State = "Running"
    /\ d.dataStorage.newShards = <<>>

\* Whether the step applies a BatchSplit that passes the validation and for
\* which dataStorage.Split gives the answer.
splitAnswered(answer) ==
    /\ d'.ctx.index = d.ctx.index + 1
    /\ raftLog' = Append(raftLog, Entry(d'.ctx.req, answer))
    /\ d'.ctx.req.adminCmdType = "BatchSplit"
    /\ ~malformedSplit(d'.ctx.req.Requests, d.shard)

\* C18: when dataStorage.Split answers Aborted the apply returns an empty
\* response and no error, leaves the in-memory shard and the splited flag,
\* and emits no adminResult; any other error of dataStorage.Split is fatal.
C18_AbortedSplitNoOp ==
    [][/\ splitAnswered("ErrAborted")
          => /\ d'.ctx.resp = EmptyResponseBatch
             /\ d'.ctx.err = NoError
             /\ d'.shard = d.shard
             /\ d'.splited = d.splited
             /\ d'.ctx.adminResult = NoAdminResult
             /\ ~d'.fatal
       /\ \A answer \in SplitErrors \ {NoError, "ErrAborted"} :
             splitAnswered(answer) => d'.fatal]_vars

\* A split in two was aborted by the storage and the same split, applied
\* again, completed: the version rose by 2 once, from 1 to 3.
C18_Witness ==
    /\ Len(raftLog) = 2
    /\ Len(raftLog[1].req.Requests) = 2
    /\ raftLog[1].answer = "ErrAborted"
    /\ raftLog[2].req = raftLog[1].req
    /\ raftLog[2].answer = NoError
    /\ d.splited
    /\ d.shard.State = "Destroying"
    /\ d.shard.Epoch = [ConfVer |-> 1, Version |-> 3]

\* C19: a RemoveNode of this replica's own ID applied with success marks
\* the state machine removed and persists, at the index of the entry, a
\* record of replicaState Tombstone; a ConfigChange applied with success by
\* a replica that has not removed itself persists replicaState Normal.
C19_SelfRemovalTombstone ==
    [][applied("ConfigChange")
       => /\ d'.dataStorage.metadata.LogIndex = d'.ctx.index
          /\ (/\ d'.ctx.req.ChangeType = "RemoveNode"
              /\ d'.ctx.req.Replica.ID = d.replica.ID)
             => /\ d'.removed
                /\ d'.dataStorage.metadata.Metadata.State = "Tombstone"
          /\ ~d'.removed
             => d'.dataStorage.metadata.Metadata.State = "Normal"]_vars

\* The replica applied RemoveNode of itself as its second entry: it is
\* removed, out of the replicas, and the record of index 2 is a Tombstone.
C19_Witness ==
    /\ d.ctx.index = 2
    /\ d.ctx.req.adminCmdType = "ConfigChange"
    /\ d.ctx.req.ChangeType = "RemoveNode"
    /\ d.ctx.req.Replica = SelfReplica
    /\ d.ctx.err = NoError
    /\ d.removed
    /\ findReplica(d.shard, SelfReplica.ContainerID) = 0
    /\ d.dataStorage.metadata.LogIndex = 2
    /\ d.dataStorage.metadata.Metadata.State = "Tombstone"

\* Whether the step applies with success a RemoveNode of this replica's own
\* ID.
removesItself ==
    /\ applied("ConfigChange")
    /\ d'.ctx.req.ChangeType = "RemoveNode"
    /\ d'.ctx.req.Replica.ID = d.replica.ID

\* C20 as stated: the state of the in-memory shard becomes Destroying when
\* the replica applies a RemoveNode of itself and when it applies a
\* BatchSplit that is not aborted, and no apply sets it to Destroyed.
C20_Lifecycle ==
    [][/\ removesItself => d'.shard.State = "Destroying"
       /\ d'.ctx.adminResult.adminType = "BatchSplit"
          => d'.shard.State = "Destroying"
       /\ d.shard.State # "Destroyed" => d'.shard.State # "Destroyed"]_vars

\* C20, amended: a BatchSplit that is not aborted sets the state of the
\* in-memory shard to Destroying; a RemoveNode of the replica itself sets
\* the removed flag and leaves the state of the shard; ConfigChange,
\* UpdateLabels and CompactLog never change the state, and no handler but
\* UpdateMetadata, which installs the state of its request, sets Destroyed.
C20_LifecycleBySplitAndFlag ==
    [][d'.ctx.index = d.ctx.index + 1
       => /\ d'.ctx.adminResult.adminType = "BatchSplit"
             => d'.shard.State = "Destroying"
          /\ removesItself
             => d'.removed /\ d'.shard.State = d.shard.State
          /\ d'.ctx.req.adminCmdType \in {"ConfigChange", "UpdateLabels", "CompactLog"}
             => d'.shard.State = d.shard.State
          /\ d'.ctx.req.adminCmdType = "BatchSplit"
             => d'.shard.State \in {d.shard.State, "Destroying"}]_vars

\* The replica has removed itself, has persisted the Tombstone, and its
\* shard is Running as before.
C20_Witness ==
    /\ d.ctx.req.adminCmdType = "ConfigChange"
    /\ d.ctx.req.ChangeType = "RemoveNode"
    /\ d.ctx.req.Replica = SelfReplica
    /\ d.ctx.err = NoError
    /\ ~d.fatal
    /\ d.removed
    /\ d.dataStorage.metadata.Metadata.State = "Tombstone"
    /\ d.shard.State = "Running"

\* Whether byte string a is below byte string b: at the first position where
\* they differ a has the lower byte, or a ends there.
bytesBelow(a, b) ==
    \E k \in 1..Len(b) :
        /\ k - 1 <= Len(a)
        /\ \A j \in 1..(k - 1) : a[j] = b[j]
        /\ (k > Len(a) \/ a[k] < b[k])

\* C21: checkKeyInShard(key, shard) returns nil exactly when key is not
\* below shard.Start and shard.End is empty or key is below it; otherwise it
\* returns the KeyNotInShard error with the key and the shard's ID, Start
\* and End.
C21_CheckKeyInShard ==
    d.ctx.index = 1
    => LET key == d.ctx.req.Key
           inRange == /\ ~bytesBelow(key, d.shard.Start)
                      /\ (d.shard.End = <<>> \/ bytesBelow(key, d.shard.End))
       IN  /\ inRange <=> d.ctx.err = NilError
           /\ ~inRange
              => d.ctx.err =
                     [Message |-> "key not in shard",
                      KeyNotInShard |-> [Key |-> key, ShardID |-> d.shard.ID,
                                         Start |-> d.shard.Start,
                                         End |-> d.shard.End]]

\* The end of the range [1, 2 1) of shard 2 was checked and refused.
C21_Witness ==
    /\ d.ctx.index = 1
    /\ d.shard.ID = 2
    /\ d.shard.Start = <<1>>
    /\ d.shard.End = <<2, 1>>
    /\ d.ctx.req.Key = <<2, 1>>
    /\ d.ctx.err.Message = "key not in shard"
    /\ d.ctx.err.KeyNotInShard.Key = <<2, 1>>

\* C22: no CompactLog apply lowers firstIndex, whatever the first index, the
\* compact index of the request and the persistent log index the storage
\* reports.
C22_FirstIndexMonotone ==
    [][d'.firstIndex >= d.firstIndex]_vars

\* The step applies an entry of one of the types and persists a record of
\* the shard at the entry's index, on a replica that had removed itself and
\* persisted that.
persistsAfterSelfRemoval(types) ==
    /\ d.removed
    /\ ~d.fatal
    /\ d'.ctx.index = d.ctx.index + 1
    /\ d'.ctx.req.adminCmdType \in types
    /\ d'.dataStorage.metadata.ShardID = d.shardID
    /\ d'.dataStorage.metadata.LogIndex = d'.ctx.index

\* C23: once the replica has removed itself and persisted Tombstone, every
\* record of the shard that a later ConfigChange, UpdateLabels or BatchSplit
\* persists has replicaState Tombstone too.
C23_TombstoneSticky ==
    [][persistsAfterSelfRemoval({"ConfigChange", "UpdateLabels", "BatchSplit"})
       => d'.dataStorage.metadata.Metadata.State = "Tombstone"]_vars

\* C24: from replicas with pairwise distinct IDs, no sequence of ConfigChange
\* entries leaves two replicas with the same ID in the in-memory shard.
C24_DistinctReplicaIDs ==
    \A i, j \in 1..Len(d.shard.Replicas) :
        i # j => d.shard.Replicas[i].ID # d.shard.Replicas[j].ID

====
